---------------------------- MODULE Spec2Model ----------------------------
(***************************************************************************)
(* Model of restclient (src/restclient/__init__.py): request construction, *)
(* the debuglevel save/set/restore around the transport request, response  *)
(* decoding, the do_async dispatch of rest_invoke, and the normalisers     *)
(* fix_params / fix_headers.                                                *)
(*                                                                         *)
(* Python values are tagged records [t, v]: t is the Python type ("str",   *)
(* "bytes", "int", "none") and v the sequence of its characters (for       *)
(* bytes: its bytes; for int: its decimal digits).  A character is a       *)
(* one-character TLA+ string; a few fixed literals of the source (header   *)
(* names, media types, the multipart boundary) are kept as one token.      *)
(* Dictionaries are sequences of slots in insertion order, with deleted    *)
(* slots kept as tombstones, which is what decides how a loop over         *)
(* d.keys() behaves when its body adds and deletes keys.                   *)
(***************************************************************************)
EXTENDS Integers, Sequences, FiniteSets, TLC

VARIABLES
    strictIter,     \* interpreter raises "keys changed during iteration"
    debuglevel,     \* httplib2.debuglevel, the process-wide setting
    pc,             \* per caller: position in rest_invoke and below
    args,           \* per caller: the arguments as passed (snapshot)
    objs,           \* per caller: the caller's mapping objects, mutated in place
    loc,            \* per caller: locals of _rest_invoke / non_multipart / post_multipart
    thread,         \* per caller: the threading.Thread object of the call
    sent,           \* per caller: what h.request was invoked with
    response,       \* per caller: what h.request returned
    outcome,        \* per caller: what rest_invoke returned or raised
    calls,          \* per caller: number of calls made so far
    hist,           \* per caller: the debuglevel the call began under, and
                    \* the request of the call whose objects it passes again
    fx              \* the normaliser under test (fix_params / fix_headers)

vars == <<strictIter, debuglevel, pc, args, objs, loc, thread, sent,
          response, outcome, calls, hist, fx>>

---------------------------------------------------------------------------
(* Bounds *)

MaxCalls == 1           \* calls made by each caller
MaxReuse == 1           \* further calls a caller makes with the same objects
MaxDebugLevel == 2      \* debug levels are 0..MaxDebugLevel
MaxEntries == 2         \* entries of a mapping given to fix_params / fix_headers

---------------------------------------------------------------------------
(* Python values *)

Str(s)   == [t |-> "str",   v |-> s]
Bytes(s) == [t |-> "bytes", v |-> s]
PyInt(s) == [t |-> "int",   v |-> s]
None     == [t |-> "none",  v |-> <<>>]

\* u'‒', the non-ASCII character of the source's own unicode tests
NonAscii == {"U+2012"}
\* the bytes of its UTF-8 encoding
HighBytes == {"xE2", "x80", "x92"}

IsAscii(s) == \A i \in 1..Len(s) : s[i] \notin NonAscii

RECURSIVE Utf8(_)
Utf8(s) ==
    IF s = <<>> THEN <<>>
    ELSE (IF Head(s) \in NonAscii THEN <<"xE2", "x80", "x92">>
          ELSE <<Head(s)>>) \o Utf8(Tail(s))

RECURSIVE Utf8Decode(_)
Utf8Decode(b) ==
    IF b = <<>> THEN <<>>
    ELSE IF Len(b) >= 3 /\ SubSeq(b, 1, 3) = <<"xE2", "x80", "x92">>
         THEN <<"U+2012">> \o Utf8Decode(SubSeq(b, 4, Len(b)))
         ELSE <<Head(b)>> \o Utf8Decode(Tail(b))

AsciiIgnore(s) == SelectSeq(s, LAMBDA c : c \notin NonAscii)

\* x.encode('utf8') and x.encode('ascii', 'ignore') of a str
EncodeUtf8(x)        == Bytes(Utf8(x.v))
EncodeAsciiIgnore(x) == Bytes(AsciiIgnore(x.v))
\* x.encode('ascii') raises UnicodeEncodeError
EncodeAsciiFails(x)  == ~IsAscii(x.v)

\* repr of the bytes of a bytes object, as str(b) prints them
RECURSIVE ReprBytes(_)
ReprBytes(b) ==
    IF b = <<>> THEN <<>>
    ELSE (IF Head(b) \in HighBytes
          THEN <<"\\", "x", "h", "h">>
          ELSE <<Head(b)>>) \o ReprBytes(Tail(b))

\* str(x)
PyStr(x) ==
    CASE x.t = "str"   -> x
      [] x.t = "int"   -> Str(x.v)
      [] x.t = "bytes" -> Str(<<"b", "'">> \o ReprBytes(x.v) \o <<"'">>)
      [] OTHER         -> Str(<<"N", "o", "n", "e">>)

DigitChars == <<"0", "1", "2", "3", "4", "5", "6", "7", "8", "9">>

RECURSIVE Digits(_)
\* str(n) of a natural number
Digits(n) ==
    IF n < 10 THEN <<DigitChars[n + 1]>>
    ELSE Digits(n \div 10) \o <<DigitChars[(n % 10) + 1]>>

---------------------------------------------------------------------------
(* Dictionaries *)

Slot(k, val) == [k |-> k, v |-> val, live |-> TRUE]

RECURSIVE MkDict(_)
\* a dict literal from a sequence of <<key, value>> pairs
MkDict(pairs) ==
    IF pairs = <<>> THEN <<>>
    ELSE LET rest == MkDict(SubSeq(pairs, 1, Len(pairs) - 1))
             p    == pairs[Len(pairs)]
         IN  Append(rest, Slot(p[1], p[2]))

LiveIdx(d)  == {i \in 1..Len(d) : d[i].live}
Used(d)     == Cardinality(LiveIdx(d))
Has(d, k)   == \E i \in LiveIdx(d) : d[i].k = k
IdxOf(d, k) == CHOOSE i \in LiveIdx(d) : d[i].k = k
Get(d, k)   == d[IdxOf(d, k)].v
\* d[k] = val
Set(d, k, val) ==
    IF Has(d, k) THEN [d EXCEPT ![IdxOf(d, k)].v = val]
    ELSE Append(d, Slot(k, val))
\* del d[k]
Del(d, k)   == [d EXCEPT ![IdxOf(d, k)].live = FALSE]
\* the entries of d in iteration order
Items(d)    == SelectSeq(d, LAMBDA s : s.live)
\* the dict as a set of key/value pairs
Pairs(d)    == {<<d[i].k, d[i].v>> : i \in LiveIdx(d)}

Min(S) == CHOOSE x \in S : \A y \in S : x <= y

SeqsUpTo(S, n) == UNION {[1..m -> S] : m \in 0..n}

Ok(d)       == [err |-> "none", d |-> d]
Raise(e, d) == [err |-> e, d |-> d]

---------------------------------------------------------------------------
(* fix_params *)

\* body of the first loop of fix_params for key k
FixParamsKey(d, k) ==
    IF k.t # "str"
    THEN Del(Set(d, PyStr(k), Get(d, k)), k)
    ELSE IF EncodeAsciiFails(k)
         THEN Del(Set(d, EncodeUtf8(k), Get(d, k)), k)
         ELSE d

RECURSIVE FixParamsKeys(_, _, _, _)
\* "for k in params.keys():" with the dict iterator at slot pos, expecting
\* remaining more keys of a dict of used entries
FixParamsKeys(d, pos, remaining, used) ==
    IF Used(d) # used THEN Raise("RuntimeError", d)
    ELSE IF {i \in LiveIdx(d) : i >= pos} = {} THEN Ok(d)
    ELSE IF strictIter /\ remaining = 0 THEN Raise("RuntimeError", d)
    ELSE FixParamsKeys(FixParamsKey(d, d[Min({i \in LiveIdx(d) : i >= pos})].k),
                       Min({i \in LiveIdx(d) : i >= pos}) + 1, remaining - 1, used)

\* body of the second loop of fix_params: the value stored under a key
FixParamsValue(val) ==
    LET s == IF val.t # "str" THEN PyStr(val) ELSE val
    IN  IF EncodeAsciiFails(s) THEN EncodeUtf8(s) ELSE s

FixParamsValues(d) ==
    [i \in 1..Len(d) |->
        IF d[i].live THEN [d[i] EXCEPT !.v = FixParamsValue(d[i].v)] ELSE d[i]]

\* the second loop of fix_params, run when the first one ended normally
FixParamsAfterKeys(r) ==
    IF r.err # "none" THEN r ELSE Ok(FixParamsValues(r.d))

fix_params(params) ==
    FixParamsAfterKeys(FixParamsKeys(params, 1, Used(params), Used(params)))

---------------------------------------------------------------------------
(* fix_headers *)

\* lines 540-547: the entry of key k is replaced by its ASCII bytes when
\* its name or value does not encode as ASCII
FixHeadersEncode(d, k) ==
    IF EncodeAsciiFails(Get(d, k)) \/ EncodeAsciiFails(k)
    THEN Ok(Del(Set(d, EncodeAsciiIgnore(k), EncodeAsciiIgnore(Get(d, k))), k))
    ELSE Ok(d)

\* lines 538-539: headers[k] is read, KeyError when k is gone
FixHeadersValue(d, k) ==
    IF ~Has(d, k) THEN Raise("KeyError", d)
    ELSE FixHeadersEncode(IF Get(d, k).t # "str"
                          THEN Set(d, k, PyStr(Get(d, k))) ELSE d, k)

\* body of the loop of fix_headers for key k
FixHeadersKey(d, k) ==
    FixHeadersValue(IF k.t # "str" THEN Del(Set(d, PyStr(k), Get(d, k)), k)
                    ELSE d, k)

RECURSIVE FixHeadersKeys(_, _, _, _)
RECURSIVE FixHeadersNext(_, _, _, _)

\* the loop goes on after the body ran for the key at slot i, unless the
\* body raised
FixHeadersNext(r, i, remaining, used) ==
    IF r.err # "none" THEN r ELSE FixHeadersKeys(r.d, i + 1, remaining - 1, used)

FixHeadersKeys(d, pos, remaining, used) ==
    IF Used(d) # used THEN Raise("RuntimeError", d)
    ELSE IF {i \in LiveIdx(d) : i >= pos} = {} THEN Ok(d)
    ELSE IF strictIter /\ remaining = 0 THEN Raise("RuntimeError", d)
    ELSE FixHeadersNext(FixHeadersKey(d, d[Min({i \in LiveIdx(d) : i >= pos})].k),
                        Min({i \in LiveIdx(d) : i >= pos}), remaining, used)

fix_headers(headers) ==
    FixHeadersKeys(headers, 1, Used(headers), Used(headers))

---------------------------------------------------------------------------
(* Literals of the source *)

GET    == "GET"
POST   == "POST"
PUT    == "PUT"
DELETE == "DELETE"

HAccept        == Str(<<"Accept">>)
HContentType   == Str(<<"Content-Type">>)
HContentLength == Str(<<"Content-Length">>)
KDebuglevel    == Str(<<"debuglevel">>)

AnyType        == Str(<<"*/*">>)
FormUrlencoded == Str(<<"application/x-www-form-urlencoded">>)
AppJson        == Str(<<"application/json">>)
TextPlain      == Str(<<"text/plain">>)
OctetStream    == Str(<<"application/octet-stream">>)
MultipartPrefix == <<"multipart/form-data; boundary=">>
BOUNDARY       == "----------ThIs_Is_tHe_bouNdaRY_$"
CRLF           == "\\r\\n"

\* number of characters of a token
CharLen(tok) ==
    CASE tok = BOUNDARY -> 32
      [] tok = CRLF -> 2
      [] tok = "--" -> 2
      [] tok = "Content-Disposition: form-data; name=\"" -> 38
      [] tok = "\"; filename=\"" -> 13
      [] tok = "Content-Type: " -> 14
      [] tok = "text/plain" -> 10
      [] tok = "application/octet-stream" -> 24
      [] tok = ".txt" -> 4
      [] OTHER -> 1

RECURSIVE PyLen(_)
\* len(s) of a str or bytes
PyLen(s) == IF s = <<>> THEN 0 ELSE CharLen(Head(s)) + PyLen(Tail(s))

StartsWith(s, prefix) ==
    Len(s) >= Len(prefix) /\ SubSeq(s, 1, Len(prefix)) = prefix
EndsWith(s, suffix) ==
    Len(s) >= Len(suffix)
    /\ SubSeq(s, Len(s) - Len(suffix) + 1, Len(s)) = suffix
Contains(s, c) == \E i \in 1..Len(s) : s[i] = c

---------------------------------------------------------------------------
(* urllib.parse.urlencode *)

\* percent-encoding of one character or byte by quote_plus
QuoteChar(c) ==
    CASE c = "U+2012" -> <<"%", "E", "2", "%", "8", "0", "%", "9", "2">>
      [] c = "xE2"    -> <<"%", "E", "2">>
      [] c = "x80"    -> <<"%", "8", "0">>
      [] c = "x92"    -> <<"%", "9", "2">>
      [] c = "'"      -> <<"%", "2", "7">>
      [] c = "\\"     -> <<"%", "5", "C">>
      [] OTHER        -> <<c>>

RECURSIVE QuoteSeq(_)
QuoteSeq(s) == IF s = <<>> THEN <<>> ELSE QuoteChar(Head(s)) \o QuoteSeq(Tail(s))

\* quote_plus(x) for bytes x, quote_plus(str(x)) otherwise
quote_plus(x) == IF x.t = "bytes" THEN QuoteSeq(x.v) ELSE QuoteSeq(PyStr(x).v)

RECURSIVE UrlencodeItems(_)
UrlencodeItems(items) ==
    IF items = <<>> THEN <<>>
    ELSE quote_plus(Head(items).k) \o <<"=">> \o quote_plus(Head(items).v)
         \o (IF Len(items) > 1 THEN <<"&">> ELSE <<>>)
         \o UrlencodeItems(Tail(items))

urlencode(d) == Str(UrlencodeItems(Items(d)))

---------------------------------------------------------------------------
(* json.dumps / json.loads *)

JsonEscape(c) ==
    IF c \in NonAscii THEN <<"\\", "u", "2", "0", "1", "2">> ELSE <<c>>

RECURSIVE JsonEscapeSeq(_)
JsonEscapeSeq(s) ==
    IF s = <<>> THEN <<>> ELSE JsonEscape(Head(s)) \o JsonEscapeSeq(Tail(s))

JsonString(s) == <<"\"">> \o JsonEscapeSeq(s) \o <<"\"">>

\* a dict key as json.dumps writes it: ints become strings
JsonKey(k)    == JsonString(k.v)
JsonScalar(x) == IF x.t = "str" THEN JsonString(x.v) ELSE x.v

Serializable(d) ==
    \A i \in LiveIdx(d) : d[i].k.t \in {"str", "int"} /\ d[i].v.t \in {"str", "int"}

RECURSIVE JsonMembers(_)
JsonMembers(items) ==
    IF items = <<>> THEN <<>>
    ELSE JsonKey(Head(items).k) \o <<":", " ">> \o JsonScalar(Head(items).v)
         \o (IF Len(items) > 1 THEN <<",", " ">> ELSE <<>>)
         \o JsonMembers(Tail(items))

\* json.dumps(params): TypeError for keys or values json cannot write
json_dumps(d) ==
    IF Serializable(d)
    THEN [err |-> "none", s |-> Str(<<"{">> \o JsonMembers(Items(d)) \o <<"}">>)]
    ELSE [err |-> "TypeError", s |-> Str(<<>>)]

\* decoded JSON documents: an object (a dict with str keys) or an array
JObj(d)   == [jt |-> "obj", items |-> d]
JArr(d)   == [jt |-> "arr", items |-> d]
NotJson   == [jt |-> "none", items |-> <<>>]

\* json.loads is defined on the documents json.dumps writes and on the
\* response bodies: objects of scalars, arrays of scalars, and scalars.
Bad == [ok |-> FALSE, val |-> None, next |-> 0]

IsDigit(c) == \E i \in 1..10 : DigitChars[i] = c

RECURSIVE ParseChars(_, _, _)
\* the characters of a string literal from position i to its closing quote
ParseChars(s, i, acc) ==
    IF i > Len(s) THEN Bad
    ELSE IF s[i] = "\"" THEN [ok |-> TRUE, val |-> Str(acc), next |-> i + 1]
    ELSE IF s[i] = "\\"
         THEN IF i + 5 <= Len(s) /\ SubSeq(s, i + 1, i + 5) = <<"u", "2", "0", "1", "2">>
              THEN ParseChars(s, i + 6, Append(acc, "U+2012"))
              ELSE Bad
         ELSE ParseChars(s, i + 1, Append(acc, s[i]))

RECURSIVE ParseDigits(_, _, _)
ParseDigits(s, i, acc) ==
    IF i <= Len(s) /\ IsDigit(s[i]) THEN ParseDigits(s, i + 1, Append(acc, s[i]))
    ELSE [ok |-> TRUE, val |-> PyInt(acc), next |-> i]

ParseScalar(s, i) ==
    IF i > Len(s) THEN Bad
    ELSE IF s[i] = "\"" THEN ParseChars(s, i + 1, <<>>)
    ELSE IF IsDigit(s[i]) THEN ParseDigits(s, i, <<>>)
    ELSE Bad

SkipSpace(s, i) == IF i <= Len(s) /\ s[i] = " " THEN i + 1 ELSE i

RECURSIVE ParseMembers(_, _, _)
\* the members of an object from position i on; a repeated key keeps its
\* last value
ParseMembers(s, i, acc) ==
    LET k == IF i <= Len(s) /\ s[i] = "\"" THEN ParseChars(s, i + 1, <<>>) ELSE Bad
        c == SkipSpace(s, k.next)
        x == IF k.ok /\ c <= Len(s) /\ s[c] = ":"
             THEN ParseScalar(s, SkipSpace(s, c + 1)) ELSE Bad
        e == SkipSpace(s, x.next)
    IN  IF ~x.ok \/ e > Len(s) THEN [ok |-> FALSE, items |-> <<>>]
        ELSE IF s[e] = "}"
             THEN [ok |-> e = Len(s), items |-> Items(Set(acc, k.val, x.val))]
        ELSE IF s[e] = ","
             THEN ParseMembers(s, SkipSpace(s, e + 1), Set(acc, k.val, x.val))
        ELSE [ok |-> FALSE, items |-> <<>>]

RECURSIVE ParseElements(_, _, _)
ParseElements(s, i, acc) ==
    LET x == ParseScalar(s, i)
        e == SkipSpace(s, x.next)
    IN  IF ~x.ok \/ e > Len(s) THEN [ok |-> FALSE, items |-> <<>>]
        ELSE IF s[e] = "]"
             THEN [ok |-> e = Len(s), items |-> Append(acc, Slot(None, x.val))]
        ELSE IF s[e] = ","
             THEN ParseElements(s, SkipSpace(s, e + 1), Append(acc, Slot(None, x.val)))
        ELSE [ok |-> FALSE, items |-> <<>>]

\* json.loads(x): the document whose text x is, NotJson when x is not the
\* text of a document (json.loads raises ValueError)
json_loads(x) ==
    LET s == x.v
    IN  IF s = <<>> THEN NotJson
        ELSE IF s[1] = "{"
        THEN IF Len(s) = 2 /\ s[2] = "}" THEN JObj(<<>>)
             ELSE LET m == ParseMembers(s, 2, <<>>)
                  IN  IF m.ok THEN JObj(m.items) ELSE NotJson
        ELSE IF s[1] = "["
        THEN IF Len(s) = 2 /\ s[2] = "]" THEN JArr(<<>>)
             ELSE LET m == ParseElements(s, 2, <<>>)
                  IN  IF m.ok THEN JArr(m.items) ELSE NotJson
        ELSE LET x1 == ParseScalar(s, 1)
             IN  IF x1.ok /\ x1.next = Len(s) + 1
                 THEN [jt |-> "scalar", items |-> <<Slot(None, x1.val)>>]
                 ELSE NotJson

---------------------------------------------------------------------------
(* URL handling *)

\* index of the first c in s, 0 when absent
Find(s, c) == IF Contains(s, c) THEN Min({i \in 1..Len(s) : s[i] = c}) ELSE 0

\* my_urlparse(url): scheme, host and the path with its query put back
my_urlparse(url) ==
    LET i      == Find(url.v, "://")
        rest   == SubSeq(url.v, i + 1, Len(url.v))
        j      == Find(rest, "/")
        host   == IF j = 0 THEN rest ELSE SubSeq(rest, 1, j - 1)
        pq     == IF j = 0 THEN <<>> ELSE SubSeq(rest, j, Len(rest))
        q      == Find(pq, "?")
        path   == IF q = 0 THEN pq ELSE SubSeq(pq, 1, q - 1)
        query  == IF q = 0 THEN <<>> ELSE SubSeq(pq, q + 1, Len(pq))
    IN  [scheme |-> SubSeq(url.v, 1, i - 1),
         host   |-> host,
         path   |-> IF query # <<>> THEN path \o <<"?">> \o query ELSE path]

extract_host(url)   == my_urlparse(url).host
extract_scheme(url) == my_urlparse(url).scheme
extract_path(url)   == my_urlparse(url).path

---------------------------------------------------------------------------
(* Header and body construction *)

RECURSIVE JoinComma(_)
\* ','.join(accept)
JoinComma(accept) ==
    IF accept = <<>> THEN <<>>
    ELSE Head(accept).v \o (IF Len(accept) > 1 THEN <<",">> ELSE <<>>)
         \o JoinComma(Tail(accept))

add_accepts(accept, headers) ==
    IF accept # <<>>
    THEN Set(headers, HAccept, Str(JoinComma(accept)))
    ELSE Set(headers, HAccept, AnyType)

\* unpack_params(params): params.keys() exists only for a mapping
unpack_params(params) ==
    IF params.t = "dict"
    THEN [err |-> "none", fields |-> Items(params.v)]
    ELSE [err |-> "AttributeError", fields |-> <<>>]

\* lines 560-565 for a key that was a str
FixFilesEncode(d, k) ==
    IF EncodeAsciiFails(k) THEN Ok(Del(Set(d, EncodeUtf8(k), Get(d, k)), k))
    ELSE Ok(d)

\* body of the first loop of fix_files for key k: k.encode exists only
\* for a str
FixFilesKey(d, k) ==
    IF k.t # "str" THEN Raise("AttributeError", Del(Set(d, PyStr(k), Get(d, k)), k))
    ELSE FixFilesEncode(d, k)

RECURSIVE FixFilesKeys(_, _, _, _)
RECURSIVE FixFilesNext(_, _, _, _)

FixFilesNext(r, i, remaining, used) ==
    IF r.err # "none" THEN r ELSE FixFilesKeys(r.d, i + 1, remaining - 1, used)

FixFilesKeys(d, pos, remaining, used) ==
    IF Used(d) # used THEN Raise("RuntimeError", d)
    ELSE IF {i \in LiveIdx(d) : i >= pos} = {} THEN Ok(d)
    ELSE IF strictIter /\ remaining = 0 THEN Raise("RuntimeError", d)
    ELSE FixFilesNext(FixFilesKey(d, d[Min({i \in LiveIdx(d) : i >= pos})].k),
                      Min({i \in LiveIdx(d) : i >= pos}), remaining, used)

\* the second loop of fix_files: a non-ASCII filename becomes UTF-8 bytes
FixFilesNames(d) ==
    [i \in 1..Len(d) |->
        IF d[i].live /\ EncodeAsciiFails(d[i].v)
        THEN [d[i] EXCEPT !.v = EncodeUtf8(d[i].v)] ELSE d[i]]

FixFilesAfterKeys(r) == IF r.err # "none" THEN r ELSE Ok(FixFilesNames(r.d))

\* files maps a field name to its filename
fix_files(files) ==
    FixFilesAfterKeys(FixFilesKeys(files, 1, Used(files), Used(files)))

unpack_files(files) == Items(files)

\* mimetypes.guess_type(filename)[0] or 'application/octet-stream'
get_content_type(filename) ==
    IF EndsWith(filename.v, <<".txt">>) THEN TextPlain ELSE OctetStream

RECURSIVE MultipartFields(_)
MultipartFields(fields) ==
    IF fields = <<>> THEN <<>>
    ELSE <<"--", BOUNDARY, CRLF, "Content-Disposition: form-data; name=\"">>
         \o PyStr(Head(fields).k).v \o <<"\"", CRLF, CRLF>>
         \o PyStr(Head(fields).v).v \o <<CRLF>>
         \o MultipartFields(Tail(fields))

RECURSIVE MultipartFiles(_)
MultipartFiles(files) ==
    IF files = <<>> THEN <<>>
    ELSE <<"--", BOUNDARY, CRLF, "Content-Disposition: form-data; name=\"">>
         \o PyStr(Head(files).k).v \o <<"\"; filename=\"">>
         \o PyStr(Head(files).v).v \o <<"\"", CRLF, "Content-Type: ">>
         \o get_content_type(Head(files).v).v \o <<CRLF, CRLF>>
         \o <<"x">> \o <<CRLF>>
         \o MultipartFiles(Tail(files))

encode_multipart_formdata(fields, files) ==
    [content_type |-> Str(MultipartPrefix \o <<BOUNDARY>>),
     body |-> Str(MultipartFields(fields) \o MultipartFiles(files)
                  \o <<"--", BOUNDARY, "--", CRLF>>)]

---------------------------------------------------------------------------
(* _rest_invoke, up to the debuglevel handling of the function it calls *)

Some(d) == [none |-> FALSE, d |-> d]
Nil     == [none |-> TRUE, d |-> <<>>]
\* the object a name is bound to after "if x is None: x = {}"
OrEmpty(x) == IF x.none THEN <<>> ELSE x.d
\* the caller's object after the call changed the dict in place
InPlace(x, d) == IF x.none THEN x ELSE Some(d)

NoLoc ==
    [multipart |-> FALSE, method |-> "", scheme |-> <<>>, host |-> <<>>,
     path |-> <<>>, body |-> None, headers |-> <<>>, content_type |-> None,
     return_resp |-> FALSE, orig_debuglevel |-> None]

\* EncodingOf without the application/json branch
EncodingOfNoJson(method, headers) ==
    IF method \in {POST, PUT} /\ ~Has(headers, HContentType) THEN "form"
    ELSE "query"

\* which of the three branches of lines 383-391 is taken
EncodingOf(method, headers) ==
    IF method \in {POST, PUT} /\ ~Has(headers, HContentType) THEN "form"
    ELSE IF method \in {POST, PUT} /\ Get(headers, HContentType) = AppJson
         THEN "json"
         ELSE "query"

\* line 388: params = json.dumps(params)
JsonEncoded(j, params, headers) ==
    [err |-> j.err, body |-> j.s, params |-> params, headers |-> headers]

\* lines 385 and 391: params = urllib.parse.urlencode(fix_params(params))
FormEncoded(f, headers) ==
    [err |-> f.err, body |-> IF f.err = "none" THEN urlencode(f.d) ELSE None,
     params |-> f.d, headers |-> headers]

\* lines 383-391: the encoded params, the headers and the params dict after
EncodeParams(method, params, headers) ==
    IF EncodingOf(method, headers) = "json"
    THEN JsonEncoded(json_dumps(params), params, headers)
    ELSE FormEncoded(fix_params(params),
                     IF EncodingOf(method, headers) = "form"
                     THEN Set(headers, HContentType, FormUrlencoded)
                     ELSE headers)

\* non_multipart, lines 415-428: path, body and headers handed to h.request
NonMultipartHead(params, method, path, headers) ==
    IF method = GET
    THEN [headers |-> Set(headers, HContentLength, Str(<<"0">>)),
          path |-> IF params.v = <<>> THEN path
                   ELSE IF ~Contains(path, "?") THEN path \o <<"?">> \o params.v
                   ELSE IF EndsWith(path, <<"?">>) THEN path \o params.v
                   ELSE path \o <<"&">> \o params.v,
          body |-> Str(<<>>)]
    ELSE [headers |-> Set(headers, HContentLength, Str(Digits(PyLen(params.v)))),
          path |-> path,
          body |-> params]

\* the call ends in error e, the caller's objects being o
Failed(e, o) == [err |-> e, objs |-> o, loc |-> NoLoc]

\* locals shared by the two request functions
CallLocals(a) ==
    [NoLoc EXCEPT !.method = a.method, !.scheme = extract_scheme(a.url),
                  !.host = extract_host(a.url), !.return_resp = a.resp]

\* lines 403-428: fix_headers(headers) is evaluated, then non_multipart runs
\* up to its debuglevel handling
NonMultipartEntered(a, o, nm) ==
    [err |-> "none", objs |-> [o EXCEPT !.headers = InPlace(@, nm.headers)],
     loc |-> [CallLocals(a) EXCEPT !.path = nm.path, !.body = nm.body,
                                   !.headers = nm.headers]]

CallNonMultipart(a, o, body, fh) ==
    IF fh.err # "none" THEN Failed(fh.err, [o EXCEPT !.headers = InPlace(@, fh.d)])
    ELSE NonMultipartEntered(a, o,
            NonMultipartHead(body, a.method, extract_path(a.url), fh.d))

\* lines 394-401 and 109-113: the arguments of post_multipart are evaluated
\* in order (unpack_params, fix_files, fix_headers), then post_multipart
\* runs up to its debuglevel handling
PostMultipartEntered(a, o, mp, headers) ==
    [err |-> "none", objs |-> o,
     loc |-> [CallLocals(a) EXCEPT !.multipart = TRUE,
                                   !.path = extract_path(a.url),
                                   !.body = mp.body,
                                   !.content_type = mp.content_type,
                                   !.headers = headers]]

CallPostMultipartHeaders(a, o, up, ff, fh) ==
    IF fh.err # "none" THEN Failed(fh.err, [o EXCEPT !.headers = InPlace(@, fh.d)])
    ELSE PostMultipartEntered(a, [o EXCEPT !.headers = InPlace(@, fh.d)],
            encode_multipart_formdata(up.fields, unpack_files(ff.d)), fh.d)

CallPostMultipartFiles(a, o, headers, up, ff) ==
    IF ff.err # "none" THEN Failed(ff.err, [o EXCEPT !.files = ff.d])
    ELSE CallPostMultipartHeaders(a, [o EXCEPT !.files = ff.d], up, ff,
                                  fix_headers(headers))

CallPostMultipart(a, o, headers, up) ==
    IF up.err # "none" THEN Failed(up.err, o)
    ELSE CallPostMultipartFiles(a, o, headers, up, fix_files(o.files))

\* lines 393-408, with params and headers as lines 382-391 left them
AfterEncode(a, o, e) ==
    IF e.err # "none" THEN Failed(e.err, o)
    ELSE IF Used(o.files) > 0
         THEN CallPostMultipart(a, o, e.headers, unpack_params(e.body))
         ELSE CallNonMultipart(a, o, e.body, fix_headers(e.headers))

\* the caller's params and headers objects after lines 382-391
EncodedObjs(o, e) ==
    [o EXCEPT !.params = InPlace(@, e.params), !.headers = InPlace(@, e.headers)]

EncodedCall(a, o, e) == AfterEncode(a, EncodedObjs(o, e), e)

\* _rest_invoke from line 347 to the entry of the debuglevel handling of
\* the function it calls: the error raised on the way (if any), the
\* caller's objects and the locals
rest_invoke_prepare(a, o) ==
    EncodedCall(a, o, EncodeParams(a.method, OrEmpty(o.params),
                                   add_accepts(a.accept, OrEmpty(o.headers))))

---------------------------------------------------------------------------
(* Response decoding, lines 129-139 and 443-453 *)

Raw(x)     == [decoded |-> FALSE, raw |-> x, json |-> NotJson]
Decoded(j) == [decoded |-> TRUE, raw |-> None, json |-> j]

Bracketed(content, open, close) ==
    StartsWith(content.v, <<open>>) /\ EndsWith(content.v, <<close>>)

Loaded(content, j) ==
    IF j = NotJson
    THEN [err |-> "ValueError", content |-> Raw(content)]
    ELSE [err |-> "none", content |-> Decoded(j)]

\* json.loads(content) as the statement "content = json.loads(content)"
LoadContent(content) == Loaded(content, json_loads(content))

\* the content after the if/elif chain, or the error it raises; in
\* post_multipart the bracket tests compare the bytes content with a str
DecodeContent(multipart, method, resp) ==
    IF resp.ctype = None THEN [err |-> "KeyError", content |-> Raw(resp.content)]
    ELSE IF StartsWith(resp.ctype.v, AppJson.v) THEN LoadContent(resp.content)
    ELSE IF method # GET THEN [err |-> "none", content |-> Raw(resp.content)]
    ELSE IF multipart THEN [err |-> "TypeError", content |-> Raw(resp.content)]
    ELSE IF Bracketed(resp.content, "{", "}") THEN LoadContent(resp.content)
    ELSE IF Bracketed(resp.content, "[", "]") THEN LoadContent(resp.content)
    ELSE [err |-> "none", content |-> Raw(resp.content)]

---------------------------------------------------------------------------
(* State *)

Callers == {"c1", "c2"}

NoArgs ==
    [url |-> Str(<<>>), method |-> "", params |-> Nil, files |-> <<>>,
     accept |-> <<>>, headers |-> Nil, do_async |-> FALSE, resp |-> FALSE,
     httplib_params |-> Nil]
NoObjs ==
    [params |-> Nil, headers |-> Nil, httplib_params |-> Nil, files |-> <<>>]
NoSent ==
    [invoked |-> FALSE, url |-> <<>>, method |-> "", body |-> None,
     headers |-> <<>>, debuglevel |-> None]
NoResponse == [ctype |-> None, content |-> None]
NoOutcome ==
    [kind |-> "pending", err |-> "none", none |-> FALSE, pair |-> FALSE,
     resp |-> NoResponse, content |-> Raw(None)]
Returned(pair, resp, content) ==
    [kind |-> "returned", err |-> "none", none |-> FALSE, pair |-> pair,
     resp |-> IF pair THEN resp ELSE NoResponse, content |-> content]
ReturnedNone == [NoOutcome EXCEPT !.kind = "returned", !.none = TRUE]
Raised(e)    == [NoOutcome EXCEPT !.kind = "raised", !.err = e]

NoHist == [level |-> None, again |-> FALSE, reuses |-> 0, sent |-> NoSent]

FxOff == [pc |-> "off", fn |-> "", input |-> <<>>, out |-> <<>>, err |-> "none"]

DebugLevel(n) == PyInt(Digits(n))

InitCalls ==
    /\ debuglevel = DebugLevel(0)
    /\ pc = [c \in Callers |-> "idle"]
    /\ args = [c \in Callers |-> NoArgs]
    /\ objs = [c \in Callers |-> NoObjs]
    /\ loc = [c \in Callers |-> NoLoc]
    /\ thread = [c \in Callers |-> "none"]
    /\ sent = [c \in Callers |-> NoSent]
    /\ response = [c \in Callers |-> NoResponse]
    /\ outcome = [c \in Callers |-> NoOutcome]
    /\ calls = [c \in Callers |-> 0]
    /\ hist = [c \in Callers |-> NoHist]

Init ==
    /\ strictIter \in BOOLEAN
    /\ InitCalls
    /\ fx = FxOff

---------------------------------------------------------------------------
(* Inputs *)

D(pairs) == MkDict(pairs)
Sa  == Str(<<"a">>)
Sb  == Str(<<"b">>)
S1  == Str(<<"1">>)
I1  == PyInt(<<"1">>)
Su  == Str(<<"U+2012">>)

Methods == {GET, POST, PUT, DELETE}
Urls ==
    {Str(<<"http", "://", "h", "/", "p">>),
     Str(<<"http", "://", "h", "/", "p", "?", "q", "=", "1">>)}
ParamInputs ==
    {Nil, Some(D(<<<<Sa, Sb>>>>)), Some(D(<<<<Sa, I1>>>>)),
     Some(D(<<<<I1, Sb>>>>)), Some(D(<<<<Sa, Su>>>>)),
     Some(D(<<<<Sa, Sb>>, <<S1, Sb>>>>))}
HeaderInputs ==
    {Nil, Some(D(<<<<HContentType, AppJson>>>>)),
     Some(D(<<<<HContentType, TextPlain>>>>)),
     Some(D(<<<<Str(<<"X">>), Su>>>>)), Some(D(<<<<I1, Sb>>>>))}
FileInputs == {<<>>, D(<<<<Str(<<"f">>), Str(<<"a", ".txt">>)>>>>)}
AcceptInputs == {<<>>, <<TextPlain>>}
HttplibInputs ==
    {Nil} \cup {Some(D(<<<<KDebuglevel, DebugLevel(n)>>>>)) : n \in 1..MaxDebugLevel}
\* the rest_invoke calls of a single caller use one debug level
CallHttplibInputs == {Nil, Some(D(<<<<KDebuglevel, DebugLevel(1)>>>>))}

ContentTypes == {None, Str(<<"application/json", "; charset=utf-8">>), TextPlain}
Contents ==
    {Bytes(<<"h", "i">>), Bytes(<<"{", "o", "}">>),
     Bytes(<<"[", "1", ",", "2", ",", "3", "]">>),
     Bytes(<<"{", "\"", "a", "\"", ":", " ", "1", "}">>)}
Responses == [ctype : ContentTypes, content : Contents]

---------------------------------------------------------------------------
(* Actions *)

\* Dispatch that runs every call in the calling thread
DispatchInline(do_async) == "inline"

\* line 334: the branch rest_invoke takes
Dispatch(do_async) == IF do_async THEN "thread" ELSE "inline"

CanCall(c) == pc[c] \in {"idle", "done"} /\ calls[c] < MaxCalls

\* the call is entered with arguments a: the mappings among them are the
\* caller's objects, passed by reference
Enter(c, a) ==
    /\ args' = [args EXCEPT ![c] = a]
    /\ objs' = [objs EXCEPT ![c] = [params |-> a.params, headers |-> a.headers,
                                    httplib_params |-> a.httplib_params,
                                    files |-> a.files]]
    /\ pc' = [pc EXCEPT ![c] = "rest_invoke"]
    /\ loc' = [loc EXCEPT ![c] = NoLoc]
    /\ thread' = [thread EXCEPT ![c] = "none"]
    /\ sent' = [sent EXCEPT ![c] = NoSent]
    /\ response' = [response EXCEPT ![c] = NoResponse]
    /\ outcome' = [outcome EXCEPT ![c] = NoOutcome]
    /\ UNCHANGED <<strictIter, debuglevel, fx>>

\* a call with fresh argument objects
StartCall(c, a) ==
    /\ calls' = [calls EXCEPT ![c] = @ + 1]
    /\ hist' = [hist EXCEPT ![c] = [@ EXCEPT !.level = debuglevel,
                                             !.again = FALSE, !.sent = NoSent]]
    /\ Enter(c, a)

\* a caller calls rest_invoke (or GET / POST / PUT / DELETE, which pass
\* their arguments on to it)
Call(c) ==
    /\ CanCall(c)
    /\ \E u \in Urls, m \in Methods, p \in ParamInputs, f \in FileInputs,
          ac \in AcceptInputs, h \in HeaderInputs, as \in BOOLEAN,
          r \in BOOLEAN, hp \in CallHttplibInputs :
        StartCall(c, [url |-> u, method |-> m, params |-> p, files |-> f,
                      accept |-> ac, headers |-> h, do_async |-> as,
                      resp |-> r, httplib_params |-> hp])

\* the arguments of a call that passes the objects of the previous call
\* again, as that call left them
ReusedArgs(a, o) ==
    [a EXCEPT !.params = o.params, !.headers = o.headers,
              !.httplib_params = o.httplib_params, !.files = o.files]

\* the caller repeats its call with the same url, method and flags and the
\* same params, headers, files and httplib_params objects
Reuse(c) ==
    /\ pc[c] = "done"
    /\ hist[c].reuses < MaxReuse
    /\ hist' = [hist EXCEPT ![c] = [level |-> debuglevel, again |-> TRUE,
                                    reuses |-> @.reuses + 1, sent |-> sent[c]]]
    /\ Enter(c, ReusedArgs(args[c], objs[c]))
    /\ UNCHANGED calls

\* rest_invoke, lines 334-341: with do_async a Thread object is constructed
\* (start() is not called on it) and the function falls off its end
RestInvoke(c) ==
    /\ pc[c] = "rest_invoke"
    /\ IF Dispatch(args[c].do_async) = "thread"
       THEN /\ thread' = [thread EXCEPT ![c] = "initial"]
            /\ outcome' = [outcome EXCEPT ![c] = ReturnedNone]
            /\ pc' = [pc EXCEPT ![c] = "done"]
       ELSE /\ pc' = [pc EXCEPT ![c] = "_rest_invoke"]
            /\ UNCHANGED <<thread, outcome>>
    /\ UNCHANGED <<strictIter, debuglevel, args, objs, loc, sent, response,
                   calls, hist, fx>>

Prepared(c, r) ==
    /\ objs' = [objs EXCEPT ![c] = r.objs]
    /\ IF r.err # "none"
       THEN /\ outcome' = [outcome EXCEPT ![c] = Raised(r.err)]
            /\ pc' = [pc EXCEPT ![c] = "done"]
            /\ UNCHANGED loc
       ELSE /\ loc' = [loc EXCEPT ![c] = r.loc]
            /\ pc' = [pc EXCEPT ![c] = "save_debuglevel"]
            /\ UNCHANGED outcome

\* _rest_invoke and the start of non_multipart / post_multipart
RestInvokeBody(c) ==
    /\ pc[c] = "_rest_invoke"
    /\ Prepared(c, rest_invoke_prepare(args[c], objs[c]))
    /\ UNCHANGED <<strictIter, debuglevel, args, thread, sent, response,
                   calls, hist, fx>>

\* lines 116 / 431: orig_debuglevel = httplib2.debuglevel
SaveDebuglevel(c) ==
    /\ pc[c] = "save_debuglevel"
    /\ loc' = [loc EXCEPT ![c].orig_debuglevel = debuglevel]
    /\ pc' = [pc EXCEPT ![c] = "set_debuglevel"]
    /\ UNCHANGED <<strictIter, debuglevel, args, objs, thread, sent, response,
                   outcome, calls, hist, fx>>

SetFrom(c, hp) ==
    IF Has(hp, KDebuglevel)
    THEN /\ debuglevel' = Get(hp, KDebuglevel)
         /\ objs' = [objs EXCEPT ![c].httplib_params =
                         InPlace(@, Del(hp, KDebuglevel))]
    ELSE UNCHANGED <<debuglevel, objs>>

\* lines 117-120 / 432-435
SetDebuglevel(c) ==
    /\ pc[c] = "set_debuglevel"
    /\ SetFrom(c, OrEmpty(objs[c].httplib_params))
    /\ pc' = [pc EXCEPT ![c] = "request"]
    /\ UNCHANGED <<strictIter, args, loc, thread, sent, response, outcome,
                   calls, hist, fx>>

\* the headers h.request is given: post_multipart sets two of them first
RequestHeaders(l) ==
    IF l.multipart
    THEN Set(Set(l.headers, HContentLength, Str(Digits(PyLen(l.body.v)))),
             HContentType, l.content_type)
    ELSE l.headers

Requested(c, headers) ==
    /\ loc' = [loc EXCEPT ![c].headers = headers]
    /\ objs' = [objs EXCEPT ![c].headers = InPlace(@, headers)]
    /\ sent' = [sent EXCEPT ![c] =
                  [invoked |-> TRUE,
                   url |-> loc[c].scheme \o <<"://">> \o loc[c].host \o loc[c].path,
                   method |-> loc[c].method, body |-> loc[c].body,
                   headers |-> headers,
                   debuglevel |-> debuglevel]]

\* lines 123-126 / 438-440: h.request runs under the debuglevel of the
\* moment and returns a response or raises
Request(c) ==
    /\ pc[c] = "request"
    /\ Requested(c, RequestHeaders(loc[c]))
    /\ \/ \E r \in Responses :
            /\ response' = [response EXCEPT ![c] = r]
            /\ pc' = [pc EXCEPT ![c] = "restore_debuglevel"]
            /\ UNCHANGED outcome
       \/ /\ outcome' = [outcome EXCEPT ![c] = Raised("TransportError")]
          /\ pc' = [pc EXCEPT ![c] = "done"]
          /\ UNCHANGED response
    /\ UNCHANGED <<strictIter, debuglevel, args, thread, calls, hist, fx>>

\* lines 128 / 442: httplib2.debuglevel = orig_debuglevel
RestoreDebuglevel(c) ==
    /\ pc[c] = "restore_debuglevel"
    /\ debuglevel' = loc[c].orig_debuglevel
    /\ pc' = [pc EXCEPT ![c] = "decode"]
    /\ UNCHANGED <<strictIter, args, objs, loc, thread, sent, response,
                   outcome, calls, hist, fx>>

Result(return_resp, resp, r) ==
    IF r.err # "none" THEN Raised(r.err)
    ELSE Returned(return_resp, resp, r.content)

\* lines 129-139 / 443-453
Decode(c) ==
    /\ pc[c] = "decode"
    /\ outcome' = [outcome EXCEPT ![c] =
            Result(loc[c].return_resp, response[c],
                   DecodeContent(loc[c].multipart, loc[c].method, response[c]))]
    /\ pc' = [pc EXCEPT ![c] = "done"]
    /\ UNCHANGED <<strictIter, debuglevel, args, objs, loc, thread, sent,
                   response, calls, hist, fx>>

Step(c) ==
    \/ RestInvoke(c)
    \/ RestInvokeBody(c)
    \/ SaveDebuglevel(c)
    \/ SetDebuglevel(c)
    \/ Request(c)
    \/ RestoreDebuglevel(c)
    \/ Decode(c)

Next == Call("c1") \/ Reuse("c1") \/ Step("c1")

Spec == Init /\ [][Next]_vars

---------------------------------------------------------------------------
(* Two callers on two threads of the process *)

\* the calls of the concurrent callers: synchronous GETs that differ in the
\* debuglevel entry of httplib_params
CallConc(c) ==
    /\ CanCall(c)
    /\ \E hp \in HttplibInputs :
        StartCall(c, [url |-> Str(<<"http", "://", "h", "/", "p">>),
                      method |-> GET, params |-> Nil, files |-> <<>>,
                      accept |-> <<>>, headers |-> Nil, do_async |-> FALSE,
                      resp |-> FALSE, httplib_params |-> hp])

NextConc == \E c \in Callers : CallConc(c) \/ Step(c)

SpecConc == Init /\ [][NextConc]_vars

---------------------------------------------------------------------------
(* The normalisers applied to a mapping *)

FixKeys   == {Sa, S1, I1, Su}
FixValues == {Sb, I1, Su}
FixInputs ==
    {d \in SeqsUpTo({Slot(k, x) : k \in FixKeys, x \in FixValues}, MaxEntries) :
        \A i, j \in 1..Len(d) : i # j => d[i].k # d[j].k}

InitFix ==
    /\ strictIter \in BOOLEAN
    /\ InitCalls
    /\ \E d \in FixInputs :
        fx = [pc |-> "ready", fn |-> "", input |-> d, out |-> d, err |-> "none"]

Applied(fn, r) ==
    fx' = [fx EXCEPT !.pc = "done", !.fn = fn, !.out = r.d, !.err = r.err]

ApplyFixParams ==
    /\ fx.pc = "ready"
    /\ Applied("fix_params", fix_params(fx.input))
    /\ UNCHANGED <<strictIter, debuglevel, pc, args, objs, loc, thread, sent,
                   response, outcome, calls, hist>>

ApplyFixHeaders ==
    /\ fx.pc = "ready"
    /\ Applied("fix_headers", fix_headers(fx.input))
    /\ UNCHANGED <<strictIter, debuglevel, pc, args, objs, loc, thread, sent,
                   response, outcome, calls, hist>>

NextFix == ApplyFixParams \/ ApplyFixHeaders

SpecFix == InitFix /\ [][NextFix]_vars

---------------------------------------------------------------------------
(* Properties *)

\* C1: every synchronous call with a non-empty files mapping reaches the
\* transport, with a Content-Type header that starts with
\* 'multipart/form-data; boundary=', instead of ending in an error first.
C1_FilesSentAsMultipart ==
    \A c \in Callers :
        (pc[c] = "done" /\ ~args[c].do_async /\ Used(args[c].files) > 0)
        => /\ sent[c].invoked
           /\ Has(sent[c].headers, HContentType)
           /\ StartsWith(Get(sent[c].headers, HContentType).v, MultipartPrefix)

\* C2: when a call with do_async has been dispatched, a new thread of
\* execution has been spawned for it (on which _rest_invoke then runs).
C2_AsyncCallSpawnsThread ==
    \A c \in Callers :
        (pc[c] = "done" /\ args[c].do_async)
        => thread[c] \in {"started", "finished"}

\* C3: a call with do_async returns None straight from rest_invoke: the
\* caller never waits in the request/response sequence and no error
\* reaches it.
C3_AsyncReturnsNone ==
    \A c \in Callers :
        (args[c].do_async /\ pc[c] # "rest_invoke")
        => pc[c] = "done" /\ outcome[c] = ReturnedNone

C3_Witness ==
    \E c \in Callers :
        args[c].do_async /\ pc[c] = "done" /\ outcome[c] = ReturnedNone

\* C4: a GET or DELETE request without files and with non-empty params is
\* sent with the URL-encoded params as the query string of its URL, an
\* empty body and Content-Length '0'.
C4_QueryStringNoBody ==
    \A c \in Callers :
        (/\ sent[c].invoked
         /\ Used(args[c].files) = 0
         /\ args[c].method \in {GET, DELETE}
         /\ Used(OrEmpty(args[c].params)) > 0)
        => LET q == urlencode(fix_params(OrEmpty(args[c].params)).d).v
           IN  /\ \/ EndsWith(sent[c].url, <<"?">> \o q)
                  \/ EndsWith(sent[c].url, <<"&">> \o q)
               /\ sent[c].body.v = <<>>
               /\ Get(sent[c].headers, HContentLength) = Str(<<"0">>)

\* C5 as stated: for every method, a request without files whose headers
\* declare Content-Type: application/json is sent with a body that decodes
\* as JSON to the original parameter mapping (of strings to strings or
\* integers).
C5_JsonBodyAnyMethod ==
    \A c \in Callers :
        (/\ sent[c].invoked
         /\ Used(args[c].files) = 0
         /\ ~args[c].headers.none
         /\ Has(args[c].headers.d, HContentType)
         /\ Get(args[c].headers.d, HContentType) = AppJson
         /\ \A i \in LiveIdx(OrEmpty(args[c].params)) :
                /\ OrEmpty(args[c].params)[i].k.t = "str"
                /\ OrEmpty(args[c].params)[i].v.t \in {"str", "int"})
        => /\ json_loads(sent[c].body).jt = "obj"
           /\ Pairs(json_loads(sent[c].body).items) = Pairs(OrEmpty(args[c].params))

\* C5 as amended: a POST or PUT request without files whose headers declare
\* Content-Type: application/json, with params mapping strings to strings
\* or integers, is sent with a body that decodes as JSON to the original
\* parameter mapping.
C5_JsonBodyPostPut ==
    \A c \in Callers :
        (/\ sent[c].invoked
         /\ Used(args[c].files) = 0
         /\ args[c].method \in {POST, PUT}
         /\ ~args[c].headers.none
         /\ Has(args[c].headers.d, HContentType)
         /\ Get(args[c].headers.d, HContentType) = AppJson
         /\ \A i \in LiveIdx(OrEmpty(args[c].params)) :
                /\ OrEmpty(args[c].params)[i].k.t = "str"
                /\ OrEmpty(args[c].params)[i].v.t \in {"str", "int"})
        => /\ json_loads(sent[c].body).jt = "obj"
           /\ Pairs(json_loads(sent[c].body).items) = Pairs(OrEmpty(args[c].params))

C5_Witness ==
    \E c \in Callers :
        /\ sent[c].invoked
        /\ args[c].method = PUT
        /\ ~args[c].headers.none
        /\ Has(args[c].headers.d, HContentType)
        /\ Get(args[c].headers.d, HContentType) = AppJson
        /\ ~args[c].params.none
        /\ Pairs(args[c].params.d) = {<<Sa, Su>>}
        /\ Pairs(json_loads(sent[c].body).items) = {<<Sa, Su>>}

\* C6: a GET response with a non-JSON content type whose body is
\* bracket-delimited but not valid JSON is returned raw, with no error.
C6_MalformedReturnsRaw ==
    \A c \in Callers :
        (/\ pc[c] = "done"
         /\ response[c] # NoResponse
         /\ args[c].method = GET
         /\ response[c].ctype # None
         /\ ~StartsWith(response[c].ctype.v, AppJson.v)
         /\ \/ Bracketed(response[c].content, "{", "}")
            \/ Bracketed(response[c].content, "[", "]")
         /\ json_loads(response[c].content) = NotJson)
        => /\ outcome[c].kind = "returned"
           /\ outcome[c].content = Raw(response[c].content)

\* C7: after the transport returns, the content returned is the decoded
\* JSON value exactly when the content type starts with 'application/json'
\* or the method is GET and the body is bracket-delimited valid JSON, and
\* the raw body otherwise; with resp set the result is the pair (response,
\* content).  Stated for responses that carry a content type, and a valid
\* JSON body when that type is JSON.
C7_DecodedExactlyWhen ==
    \A c \in Callers :
        (/\ pc[c] = "done"
         /\ response[c] # NoResponse
         /\ response[c].ctype # None
         /\ StartsWith(response[c].ctype.v, AppJson.v)
                => json_loads(response[c].content) # NotJson)
        => /\ outcome[c].kind = "returned"
           /\ outcome[c].pair = args[c].resp
           /\ outcome[c].pair => outcome[c].resp = response[c]
           /\ IF \/ StartsWith(response[c].ctype.v, AppJson.v)
                 \/ /\ args[c].method = GET
                    /\ \/ Bracketed(response[c].content, "{", "}")
                       \/ Bracketed(response[c].content, "[", "]")
                    /\ json_loads(response[c].content) # NotJson
              THEN outcome[c].content = Decoded(json_loads(response[c].content))
              ELSE outcome[c].content = Raw(response[c].content)

\* C8: fix_params returns without an error, for every mapping, a mapping
\* with one entry per input entry whose keys and values are strings (str,
\* or the UTF-8 bytes of a non-ASCII str), each value decoding back to the
\* str of the input value.
C8_FixParamsTotal ==
    (fx.pc = "done" /\ fx.fn = "fix_params")
    => /\ fx.err = "none"
       /\ Used(fx.out) = Used(fx.input)
       /\ \A i \in LiveIdx(fx.out) :
            /\ fx.out[i].k.t \in {"str", "bytes"}
            /\ fx.out[i].v.t \in {"str", "bytes"}
       /\ {Utf8Decode(fx.out[i].v.v) : i \in LiveIdx(fx.out)}
            = {PyStr(fx.input[i].v).v : i \in LiveIdx(fx.input)}

\* C9: fix_headers returns without an error, for every mapping, a mapping
\* whose names and values are ASCII-only strings, the ASCII-only str
\* entries of the input being kept as they are.
C9_FixHeadersTotal ==
    (fx.pc = "done" /\ fx.fn = "fix_headers")
    => /\ fx.err = "none"
       /\ \A i \in LiveIdx(fx.out) :
            /\ fx.out[i].k.t = "str" /\ IsAscii(fx.out[i].k.v)
            /\ fx.out[i].v.t = "str" /\ IsAscii(fx.out[i].v.v)
       /\ \A i \in LiveIdx(fx.input) :
            (/\ fx.input[i].k.t = "str" /\ IsAscii(fx.input[i].k.v)
             /\ fx.input[i].v.t = "str" /\ IsAscii(fx.input[i].v.v))
            => <<fx.input[i].k, fx.input[i].v>> \in Pairs(fx.out)

\* C10: when two callers pass different debuglevel values, each request is
\* issued under its own call's debuglevel, and once both calls have
\* returned httplib2.debuglevel is back at its value from before the calls.
C10_ConcurrentDebuglevel ==
    (/\ \A c \in Callers : /\ ~args[c].httplib_params.none
                           /\ Has(args[c].httplib_params.d, KDebuglevel)
     /\ Get(args["c1"].httplib_params.d, KDebuglevel)
            # Get(args["c2"].httplib_params.d, KDebuglevel))
    => /\ \A c \in Callers :
            sent[c].invoked
            => sent[c].debuglevel = Get(args[c].httplib_params.d, KDebuglevel)
       /\ (\A c \in Callers : outcome[c].kind = "returned")
            => debuglevel = DebugLevel(0)


\* C11: once a synchronous call that supplies 'debuglevel' in httplib_params
\* is over, httplib2.debuglevel equals its value from before the call,
\* whether the call returned or raised (in the transport or in decoding).
C11_DebuglevelRestored ==
    \A c \in Callers :
        (/\ pc[c] = "done"
         /\ ~args[c].do_async
         /\ ~args[c].httplib_params.none
         /\ Has(args[c].httplib_params.d, KDebuglevel))
        => debuglevel = hist[c].level

\* C12: a call leaves the caller's params, headers and httplib_params
\* mappings as they were passed, and a call that passes the objects of the
\* previous call again sends the same request under the same debug level.
C12_MappingsUnchanged ==
    \A c \in Callers :
        pc[c] = "done"
        => /\ objs[c].params = args[c].params
           /\ objs[c].headers = args[c].headers
           /\ objs[c].httplib_params = args[c].httplib_params
           /\ hist[c].again => sent[c] = hist[c].sent

=============================================================================
